---- MODULE Spec2Model ----
(***************************************************************************)
(* A model of src/src/components/PDCalculator.tsx: the increment rule      *)
(* tables, the validator, the cycle / volume solvers, the tidal search,    *)
(* the rounding policy and the calculate handlers of the PDCalculator      *)
(* component.                                                              *)
(*                                                                         *)
(* Numbers.  A JavaScript number that carries a volume or a percentage is  *)
(* a fixed-point integer counting 1/Scale of a unit, so that the           *)
(* fractional values the program computes (fill * tidalDecimal * n) and    *)
(* accepts (parseFloat of "100.5") are exact.  Cycle counts, increments    *)
(* and the results of Math.round / parseInt are plain integers.            *)
(*                                                                         *)
(* Doubles.  The only inexact operations of the program are the products   *)
(* with tidalDecimal (0.85 is no binary fraction) and the sums built on    *)
(* them.  Their results differ from the exact value by far less than the   *)
(* distance between two exact values, in a direction that depends on the   *)
(* operands: 61 * 0.7 * 5 is 213.49999999999997.  Such a result is the     *)
(* exact value moved by at most one fixed-point step, either way: the      *)
(* operators that compute one give the set of values it may take.          *)
(***************************************************************************)
EXTENDS Integers, Sequences, FiniteSets, TLC

VARIABLES
    \* the component's state (useState, lines 509-526)
    fillMode, pdMode, calculationMode,
    totalVolume, requestedCycles, lastFill, fillVolume,
    tidalPercentage, fullDrainEvery, treatmentTime,
    calculatedCycles, calculatedTotalVolume, tidalCycles,
    error, showTimeCalcs,
    \* one direct application of a pure function: its arguments, its result
    call, ret

modeVars   == <<fillMode, pdMode, calculationMode>>
inputVars  == <<totalVolume, requestedCycles, lastFill, fillVolume,
                tidalPercentage, fullDrainEvery, treatmentTime>>
resultVars == <<calculatedCycles, calculatedTotalVolume, tidalCycles>>
stateVars  == <<modeVars, inputVars, resultVars, error, showTimeCalcs>>
unitVars   == <<call, ret>>
vars       == <<stateVars, unitVars>>

----------------------------------------------------------------------------
(* Numbers *)

\* A unit is Scale fixed-point steps.  Volumes are entered in halves at the
\* finest and tidal / 100 with tidal % 5 = 0 is a whole number of twentieths,
\* so every exact product the program forms is a whole number of fortieths:
\* four steps, which leaves a step on either side for the error of a double.
Scale == 4 * (2 * (100 \div 5))

\* the number n (a whole) as a fixed-point number
Num(n) == n * Scale

\* the value JavaScript calls NaN: below every number the program handles
NaN == -(2^30)
isNaN(x) == x = NaN

\* x / 0 of JavaScript: Infinity, -Infinity or (0 / 0) NaN
Infinity == 2^30
DivByZero(a) == IF a > 0 THEN Infinity ELSE IF a < 0 THEN -Infinity ELSE NaN

\* Math.floor(a / b) of two numbers of the same kind
FloorDiv(a, b) ==
    IF b = 0 THEN DivByZero(a)
    ELSE IF b > 0 THEN a \div b ELSE (-a) \div (-b)

\* Math.ceil(a / b) of two numbers of the same kind
CeilDiv(a, b) ==
    IF b = 0 THEN DivByZero(a)
    ELSE IF b > 0 THEN -((-a) \div b) ELSE -(a \div (-b))

\* a * b of two fixed-point numbers, a fixed-point number (exact)
Mul(a, b) == (a * b) \div Scale

\* the directions in which an inexact double may lie off the exact value
Ulps == {-1, 0, 1}
\* 0.5 and 0.75 are binary fractions: their products with a volume are exact
Dyadic(tidalDecimal) == tidalDecimal \in {Scale \div 2, (3 * Scale) \div 4}
\* the error of fill * tidalDecimal * n, and of a sum that holds it
FpError(fill, tidalDecimal, n, ulp) ==
    IF fill = 0 \/ n = 0 \/ Dyadic(tidalDecimal) THEN 0 ELSE ulp
\* a volume that a double holds exactly: a multiple of 1/8
Binary(x) == x % (Scale \div 8) = 0
\* the error of n * fill: none when fill is held exactly or n is a power of 2
FillError(fill, n, ulp) ==
    IF Binary(fill) \/ n \in {0, 1, 2, 4, 8, 16, 32, 64, 128, 256, 512}
    THEN 0 ELSE ulp

\* a % b of JavaScript: the remainder takes the sign of the dividend
JsRem(a, b) ==
    LET m == IF b > 0 THEN b ELSE -b
    IN  IF a >= 0 THEN a % m ELSE -((-a) % m)

\* Math.round of a fixed-point number: floor(x + 0.5), a whole
MathRound(x) == IF isNaN(x) THEN NaN ELSE (x + Scale \div 2) \div Scale

\* parseInt(x.toString()) of a fixed-point number: the digits before the
\* decimal point, i.e. truncation toward zero, a whole
parseIntOfNumber(x) ==
    IF isNaN(x) THEN NaN
    ELSE IF x >= 0 THEN x \div Scale ELSE -((-x) \div Scale)

\* the empty string of an input field / the null of a result slot
Empty == <<>>
null  == <<>>
\* the text of an input field that reads as the number x; a non-null value
Text(x) == <<x>>
Some(v) == <<v>>

\* parseFloat(value.replace(/,/g, '')) of a non-empty field (lines 530-533)
parseNumericInput(value) == value[1]
\* parseFloat of a non-empty field (lines 667, 766)
parseFloat(value) == value[1]
\* parseInt of a non-empty field (lines 570, 665, 668, 767)
parseInt(value) == parseIntOfNumber(value[1])

\* n.toLocaleString() of a whole n: digit groups of three
RECURSIVE Grouped(_)
Grouped(n) ==
    IF n < 1000 THEN ToString(n)
    ELSE LET r == n % 1000
             pad == IF r < 10 THEN "00" ELSE IF r < 100 THEN "0" ELSE ""
         IN  Grouped(n \div 1000) \o "," \o pad \o ToString(r)
toLocaleString(n) ==
    IF isNaN(n) THEN "NaN"
    ELSE IF n < 0 THEN "-" \o Grouped(-n) ELSE Grouped(n)

----------------------------------------------------------------------------
(* Section 2: constants and configuration *)

INCREMENT_RULES_Overlapping ==
    [low |->
        [fillVolume |-> <<
            [range |-> <<60, 100>>, increment |-> 1],
            [range |-> <<100, 500>>, increment |-> 10],
            [range |-> <<500, 1000>>, increment |-> 50] >>,
         totalVolume |-> <<
            [range |-> <<200, 2000>>, increment |-> 50],
            [range |-> <<2000, 20000>>, increment |-> 100],
            [range |-> <<20000, 80000>>, increment |-> 500] >>],
     standard |->
        [fillVolume |-> <<
            [range |-> <<100, 500>>, increment |-> 10],
            [range |-> <<500, 1000>>, increment |-> 50],
            [range |-> <<1000, 3000>>, increment |-> 100] >>,
         totalVolume |-> <<
            [range |-> <<200, 2000>>, increment |-> 50],
            [range |-> <<1950, 5000>>, increment |-> 100],
            [range |-> <<5000, 80000>>, increment |-> 500] >>]]
INCREMENT_RULES_Ragged ==
    [low |->
        [fillVolume |-> <<
            [range |-> <<60, 100>>, increment |-> 1],
            [range |-> <<100, 500>>, increment |-> 10],
            [range |-> <<500, 1000>>, increment |-> 50] >>,
         totalVolume |-> <<
            [range |-> <<200, 2000>>, increment |-> 50],
            [range |-> <<2000, 20000>>, increment |-> 100],
            [range |-> <<20000, 80000>>, increment |-> 500] >>],
     standard |->
        [fillVolume |-> <<
            [range |-> <<100, 500>>, increment |-> 10],
            [range |-> <<500, 1000>>, increment |-> 50],
            [range |-> <<1000, 2950>>, increment |-> 100] >>,
         totalVolume |-> <<
            [range |-> <<200, 2000>>, increment |-> 50],
            [range |-> <<2000, 5000>>, increment |-> 100],
            [range |-> <<5000, 80000>>, increment |-> 500] >>]]
INCREMENT_RULES ==
    [low |->
        [fillVolume |-> <<
            [range |-> <<60, 100>>, increment |-> 1],
            [range |-> <<100, 500>>, increment |-> 10],
            [range |-> <<500, 1000>>, increment |-> 50] >>,
         totalVolume |-> <<
            [range |-> <<200, 2000>>, increment |-> 50],
            [range |-> <<2000, 20000>>, increment |-> 100],
            [range |-> <<20000, 80000>>, increment |-> 500] >>],
     standard |->
        [fillVolume |-> <<
            [range |-> <<100, 500>>, increment |-> 10],
            [range |-> <<500, 1000>>, increment |-> 50],
            [range |-> <<1000, 3000>>, increment |-> 100] >>,
         totalVolume |-> <<
            [range |-> <<200, 2000>>, increment |-> 50],
            [range |-> <<2000, 5000>>, increment |-> 100],
            [range |-> <<5000, 80000>>, increment |-> 500] >>]]

FillModes     == {"low", "standard"}
PDModes       == {"cycles", "tidal"}
CalcModes     == {"solveCycles", "solveTotalVolume"}
QuantityTypes == {"fillVolume", "totalVolume"}

MAX_TIDAL_CYCLES_Raised == 1000 + 1
MAX_TIDAL_CYCLES == 1000
FILL_DRAIN_TIME_MINUTES_Longer == 15 + 5
FILL_DRAIN_TIME_MINUTES == 15

VALIDATION_MESSAGES ==
    [invalidNumber     |-> "Please enter a valid number",
     fillTooLarge      |-> "Last fill must be less than or equal to fill volume",
     fillTooSmall      |-> "Fill volume must be greater than 0",
     allFieldsRequired |-> "Please fill in all fields",
     tidalRange        |-> "Tidal percentage must be between 40 and 95",
     tidalIncrement    |-> "Tidal percentage must be in increments of 5% (40%, 45%, 50%, etc.)",
     fullDrainRange    |-> "Full drain interval must be between 1 and 10 cycles",
     fullDrainInteger  |-> "Full drain interval must be a whole number"]

----------------------------------------------------------------------------
(* Section 3: pure calculation functions *)

\* lines 156-157: which statement calculateCyclesFromVolume returns from
calculateCyclesBranch_Unguarded(fill) == "divide"
calculateCyclesBranch(fill) ==
    IF fill = 0 THEN "return 0" ELSE "divide"

calculateCyclesFromVolume_Ceil(total, last, fill) ==
    IF fill = 0 THEN 0 ELSE CeilDiv(total - last, fill)
calculateCyclesFromVolume(total, last, fill) ==
    IF calculateCyclesBranch(fill) = "return 0" THEN 0
    ELSE FloorDiv(total - last, fill)

calculateVolumeFromCycles_ExtraCycle(cycles, fill, last) ==
    ((cycles + 1) * fill) + last
calculateVolumeFromCycles(cycles, fill, last) ==
    (cycles * fill) + last

\* Times are quotients (480 / 7 minutes): a time is the fraction num / den
\* in lowest terms with den > 0, the number its double is nearest to.
RECURSIVE Gcd(_, _)
Gcd(a, b) == IF b = 0 THEN a ELSE Gcd(b, a % b)
Abs(a) == IF a < 0 THEN -a ELSE a
\* a / b for b # 0
Rat(a, b) ==
    LET g == Gcd(Abs(a), Abs(b))
    IN  IF b < 0 THEN [num |-> (-a) \div g, den |-> (-b) \div g]
        ELSE [num |-> a \div g, den |-> b \div g]
\* q / n, q - r and n * q of times
RatDiv(q, n) == Rat(q.num, q.den * n)
RatSub(q, r) == Rat((q.num * r.den) - (r.num * q.den), q.den * r.den)
RatTimes(n, q) == Rat(n * q.num, q.den)
RatLess(q, r) == q.num * r.den < r.num * q.den
Whole(n) == Rat(n, 1)

\* lines 168-210; treatmentTimeHours is a fixed-point number, cycles a whole
calculateTimeBreakdown(treatmentTimeHours, cycles) ==
    IF \/ treatmentTimeHours = 0 \/ isNaN(treatmentTimeHours)
       \/ cycles = 0 \/ isNaN(cycles)
    THEN null
    ELSE
    LET totalMinutes       == RatTimes(60, Rat(treatmentTimeHours, Scale))
        fillDrainPerCycle  == Whole(FILL_DRAIN_TIME_MINUTES)
        totalFillDrainTime == RatTimes(cycles, fillDrainPerCycle)
        totalDwellTime     == RatSub(totalMinutes, totalFillDrainTime)
        dwellTimePerCycle  == RatDiv(totalDwellTime, cycles)
        timePerCycle       == RatDiv(totalMinutes, cycles)
        fillTime           == RatDiv(fillDrainPerCycle, 2)
        drainTime          == RatDiv(fillDrainPerCycle, 2)
    IN  IF RatLess(totalDwellTime, Whole(0))
        THEN Some([error |-> "Treatment time is too short for the number of cycles",
                   timePerCycleHours         |-> Whole(0),
                   timePerCycleMinutes       |-> Whole(0),
                   dwellTimeMinutes          |-> Whole(0),
                   dwellTimeHours            |-> Whole(0),
                   fillTimeMinutes           |-> Whole(0),
                   drainTimeMinutes          |-> Whole(0),
                   totalDwellTimeHours       |-> Whole(0),
                   totalFillDrainTimeMinutes |-> Whole(0),
                   totalTreatmentMinutes     |-> Whole(0)])
        ELSE Some([timePerCycleHours         |-> RatDiv(timePerCycle, 60),
                   timePerCycleMinutes       |-> timePerCycle,
                   dwellTimeMinutes          |-> dwellTimePerCycle,
                   dwellTimeHours            |-> RatDiv(dwellTimePerCycle, 60),
                   fillTimeMinutes           |-> fillTime,
                   drainTimeMinutes          |-> drainTime,
                   totalDwellTimeHours       |-> RatDiv(totalDwellTime, 60),
                   totalFillDrainTimeMinutes |-> totalFillDrainTime,
                   totalTreatmentMinutes     |-> totalMinutes])

\* lines 221-223: the volume of c cycles, without the last fill
tidalCalculatedVolume_Swapped(c, fill, tidalDecimal, fullDrainInterval) ==
    LET fullDrainCount   == CeilDiv(c, fullDrainInterval)
        tidalDrainCycles == fullDrainCount - c
    IN  (Mul(fill, tidalDecimal) * tidalDrainCycles) + (fullDrainCount * fill)
tidalCalculatedVolume(c, fill, tidalDecimal, fullDrainInterval) ==
    LET fullDrainCount   == CeilDiv(c, fullDrainInterval)
        tidalDrainCycles == c - fullDrainCount
    IN  (Mul(fill, tidalDecimal) * tidalDrainCycles) + (fullDrainCount * fill)

\* line 225: calculatedVolume <= workingVolume, the double calculatedVolume
\* lying off its exact value in the direction ulp
tidalFits(c, workingVolume, fill, tidalDecimal, fullDrainInterval, ulp) ==
    LET fullDrainCount == CeilDiv(c, fullDrainInterval)
        tidalError     == FpError(fill, tidalDecimal, c - fullDrainCount, ulp)
    IN  tidalCalculatedVolume(c, fill, tidalDecimal, fullDrainInterval)
            + (IF tidalError # 0 THEN tidalError
               ELSE FillError(fill, fullDrainCount, ulp))
        <= workingVolume

\* lines 220-230: the ascending scan c = lo, lo + 1, ..., hi.  The value is
\* the first c whose volume exceeds workingVolume (the break), or hi + 1
\* when the scan runs to its end.  The halves are scanned in order and the
\* upper half only when the lower half holds no break.
RECURSIVE tidalScan(_, _, _, _, _, _, _)
tidalScan(lo, hi, workingVolume, fill, tidalDecimal, fullDrainInterval, ulp) ==
    IF lo = hi
    THEN IF tidalFits(lo, workingVolume, fill, tidalDecimal,
                      fullDrainInterval, ulp)
         THEN hi + 1 ELSE lo
    ELSE LET mid   == (lo + hi) \div 2
             lower == tidalScan(lo, mid, workingVolume, fill, tidalDecimal,
                                fullDrainInterval, ulp)
         IN  IF lower <= mid THEN lower
             ELSE tidalScan(mid + 1, hi, workingVolume, fill, tidalDecimal,
                            fullDrainInterval, ulp)

\* bestCycles is the last c before the break: the counts the doubles allow
calculateTidalCyclesCount(workingVolume, fill, tidalDecimal, fullDrainInterval) ==
    {tidalScan(1, MAX_TIDAL_CYCLES, workingVolume, fill, tidalDecimal,
               fullDrainInterval, ulp) - 1 : ulp \in Ulps}

\* lines 245, 735, 806: fillVolume * tidalDecimal * tidalDrainCycles
tidalVolumes(fill, tidalDecimal, tidalDrainCycles) ==
    {(Mul(fill, tidalDecimal) * tidalDrainCycles)
        + FpError(fill, tidalDecimal, tidalDrainCycles, ulp) : ulp \in Ulps}

calculateVolumeFromTidalCycles_Floor(cycles, fill, last, tidalDecimal, fullDrainInterval) ==
    LET fullDrainCount   == FloorDiv(cycles, fullDrainInterval)
        tidalDrainCycles == cycles - fullDrainCount
        tidalVolume      == Mul(fill, tidalDecimal) * tidalDrainCycles
        fullDrainVolume  == fullDrainCount * fill
    IN  {tidalVolume + fullDrainVolume + last
            + FpError(fill, tidalDecimal, tidalDrainCycles, ulp) : ulp \in Ulps}
\* the totals the doubles allow
calculateVolumeFromTidalCycles(cycles, fill, last, tidalDecimal, fullDrainInterval) ==
    LET fullDrainCount   == CeilDiv(cycles, fullDrainInterval)
        tidalDrainCycles == cycles - fullDrainCount
        tidalVolume      == Mul(fill, tidalDecimal) * tidalDrainCycles
        fullDrainVolume  == fullDrainCount * fill
    IN  {tidalVolume + fullDrainVolume + last
            + FpError(fill, tidalDecimal, tidalDrainCycles, ulp) : ulp \in Ulps}

----------------------------------------------------------------------------
(* Section 4: rounding and validation utilities *)

\* for (const rule of rules) { if (wholeValue >= min && wholeValue <= max) ...
\* the indices of the rules whose range holds n; the loop returns at the least
matchingRules(rules, n) ==
    {i \in 1..Len(rules) : n >= rules[i].range[1] /\ n <= rules[i].range[2]}
firstOf(S) == CHOOSE i \in S : \A j \in S : i <= j

\* line 270: wholeValue + (rule.increment - remainder)
nextMultiple_Down(wholeValue, increment) ==
    wholeValue - JsRem(wholeValue, increment)
nextMultiple_Skewed(wholeValue, increment) ==
    wholeValue + JsRem(wholeValue, increment)
nextMultiple(wholeValue, increment) ==
    wholeValue + (increment - JsRem(wholeValue, increment))

\* lines 280-296: no rule holds wholeValue
outsideTable_Unflagged(wholeValue, rules) ==
    IF ~isNaN(wholeValue) /\ wholeValue > rules[Len(rules)].range[2]
    THEN [rounded |-> rules[Len(rules)].range[2], wasRounded |-> TRUE]
    ELSE [rounded |-> rules[1].range[1], wasRounded |-> TRUE]
outsideTable(wholeValue, rules) ==
    LET maxRange == rules[Len(rules)].range[2]
        minRange == rules[1].range[1]
    IN  IF ~isNaN(wholeValue) /\ wholeValue > maxRange
        THEN [rounded |-> maxRange, wasRounded |-> TRUE, outOfRange |-> TRUE,
              message |-> "Calculated volume (" \o toLocaleString(wholeValue)
                  \o " mL) exceeds maximum allowed ("
                  \o toLocaleString(maxRange) \o " mL)"]
        ELSE [rounded |-> minRange, wasRounded |-> TRUE, outOfRange |-> TRUE,
              message |-> "Calculated volume (" \o toLocaleString(wholeValue)
                  \o " mL) is below minimum allowed ("
                  \o toLocaleString(minRange) \o " mL)"]

roundToValidIncrement(value, type, mode) ==
    LET rules      == INCREMENT_RULES[mode][type]
        wholeValue == MathRound(value)
        hits       == matchingRules(rules, wholeValue)
    IN  IF hits # {}
        THEN LET rule      == rules[firstOf(hits)]
                 max       == rule.range[2]
                 remainder == JsRem(wholeValue, rule.increment)
                 rounded   == nextMultiple(wholeValue, rule.increment)
             IN  IF remainder = 0
                 THEN [rounded |-> wholeValue, wasRounded |-> FALSE]
                 ELSE IF rounded > max
                 THEN [rounded |-> max, wasRounded |-> TRUE,
                       increment |-> rule.increment]
                 ELSE [rounded |-> rounded, wasRounded |-> TRUE,
                       increment |-> rule.increment]
        ELSE outsideTable(wholeValue, rules)

\* lines 263-296: the return statement roundToValidIncrement leaves by
roundToValidIncrementBranch(value, type, mode) ==
    LET rules      == INCREMENT_RULES[mode][type]
        wholeValue == MathRound(value)
        hits       == matchingRules(rules, wholeValue)
    IN  IF hits # {}
        THEN LET rule == rules[firstOf(hits)]
             IN  IF JsRem(wholeValue, rule.increment) = 0 THEN "unchanged"
                 ELSE IF nextMultiple(wholeValue, rule.increment)
                             > rule.range[2]
                 THEN "clamped"
                 ELSE "roundedUp"
        ELSE "outOfRange"

\* an optional field of a result object: r.f, undefined when absent
Has(r, f) == f \in DOMAIN r
\* the truth value JavaScript gives an optional boolean field
Truthy_Never(r, f) == FALSE
Truthy(r, f) == Has(r, f) /\ r[f]

\* { ...r, ...extra }, and a field left undefined is a field left out
Merge(r, extra) ==
    [f \in DOMAIN r \cup DOMAIN extra |->
        IF f \in DOMAIN extra THEN extra[f] ELSE r[f]]
Only(r, fields) == [f \in DOMAIN r \cap fields |-> r[f]]

applyRoundingToTotalVolume(calculatedTotal, mode) ==
    LET roundingResult == roundToValidIncrement(calculatedTotal, "totalVolume", mode)
    IN  Merge(
            [calculated    |-> MathRound(calculatedTotal),
             programmable  |-> roundingResult.rounded,
             difference    |-> roundingResult.rounded - MathRound(calculatedTotal),
             needsRounding |-> roundingResult.wasRounded],
            IF Has(roundingResult, "message")
            THEN Merge(Only(roundingResult, {"increment", "outOfRange"}),
                       [errorMessage |-> roundingResult.message])
            ELSE Only(roundingResult, {"increment", "outOfRange"}))

validateValue_Unsigned(value, type, mode) ==
    LET num == parseIntOfNumber(value)
        abs == IF num < 0 THEN -num ELSE num
    IN  IF ~isNaN(num) /\ matchingRules(INCREMENT_RULES[mode][type], abs) # {}
        THEN [valid |-> TRUE]
        ELSE [valid |-> FALSE, message |-> VALIDATION_MESSAGES.invalidNumber]
validateValue_Lenient(value, type, mode) ==
    IF matchingRules(INCREMENT_RULES[mode][type], parseIntOfNumber(value)) # {}
    THEN [valid |-> TRUE]
    ELSE [valid |-> FALSE, message |-> VALIDATION_MESSAGES.invalidNumber]
validateValue(value, type, mode) ==
    LET num       == parseIntOfNumber(value)
        typeRules == INCREMENT_RULES[mode][type]
        hits      == matchingRules(typeRules, num)
    IN  IF isNaN(num)
        THEN [valid |-> FALSE, message |-> VALIDATION_MESSAGES.invalidNumber]
        ELSE IF hits # {}
        THEN LET rule == typeRules[firstOf(hits)]
             IN  IF JsRem(num, rule.increment) = 0
                 THEN [valid |-> TRUE]
                 ELSE [valid |-> FALSE,
                       message |-> "Must be in increments of "
                           \o ToString(rule.increment) \o " mL for range "
                           \o ToString(rule.range[1]) \o "-"
                           \o ToString(rule.range[2]) \o " mL"]
        ELSE LET minRange == typeRules[1].range[1]
                 maxRange == typeRules[Len(typeRules)].range[2]
             IN  [valid |-> FALSE,
                  message |-> "Value must be between " \o ToString(minRange)
                      \o " and " \o ToString(maxRange) \o " mL"]

validateInputs_FillFirst(total, fill, last, mode) ==
    LET totalValidation    == validateValue(total, "totalVolume", mode)
        fillValidation     == validateValue(fill, "fillVolume", mode)
        lastFillValidation == validateValue(last, "fillVolume", mode)
    IN  IF fill = 0 THEN Some(VALIDATION_MESSAGES.fillTooSmall)
        ELSE IF ~fillValidation.valid
        THEN Some("Fill Volume: " \o fillValidation.message)
        ELSE IF ~totalValidation.valid
        THEN Some("Total Volume: " \o totalValidation.message)
        ELSE IF ~lastFillValidation.valid
        THEN Some("Last Fill: " \o lastFillValidation.message)
        ELSE IF last > fill THEN Some(VALIDATION_MESSAGES.fillTooLarge)
        ELSE IF fill <= 0 THEN Some(VALIDATION_MESSAGES.fillTooSmall)
        ELSE null
\* the first failing check, null when none fails
validateInputs(total, fill, last, mode) ==
    LET totalValidation    == validateValue(total, "totalVolume", mode)
        fillValidation     == validateValue(fill, "fillVolume", mode)
        lastFillValidation == validateValue(last, "fillVolume", mode)
    IN  IF fill = 0 THEN Some(VALIDATION_MESSAGES.fillTooSmall)
        ELSE IF ~totalValidation.valid
        THEN Some("Total Volume: " \o totalValidation.message)
        ELSE IF ~fillValidation.valid
        THEN Some("Fill Volume: " \o fillValidation.message)
        ELSE IF ~lastFillValidation.valid
        THEN Some("Last Fill: " \o lastFillValidation.message)
        ELSE IF last > fill THEN Some(VALIDATION_MESSAGES.fillTooLarge)
        ELSE IF fill <= 0 THEN Some(VALIDATION_MESSAGES.fillTooSmall)
        ELSE null

----------------------------------------------------------------------------
(* Section 6: the handlers of the PDCalculator component *)

Number_isInteger(n) == n \in Int

\* lines 562-619, after setError('') and setCalculatedTotalVolume(null):
\* the error and the total-volume result the handler leaves
totalFromCycles_Uncapped ==
    IF requestedCycles = Empty \/ fillVolume = Empty \/ lastFill = Empty
    THEN [error |-> VALIDATION_MESSAGES.allFieldsRequired, result |-> null]
    ELSE
    LET cycles == parseInt(requestedCycles)
        fill   == parseNumericInput(fillVolume)
        last   == parseNumericInput(lastFill)
        fillValidation == validateValue(fill, "fillVolume", fillMode)
        lastValidation == validateValue(last, "fillVolume", fillMode)
        total        == calculateVolumeFromCycles(cycles, fill, last)
        roundingInfo == applyRoundingToTotalVolume(total, fillMode)
    IN  IF isNaN(cycles) \/ isNaN(fill) \/ isNaN(last)
        THEN [error |-> VALIDATION_MESSAGES.invalidNumber, result |-> null]
        ELSE IF cycles <= 0
        THEN [error |-> "Number of cycles must be greater than 0", result |-> null]
        ELSE IF ~Number_isInteger(cycles)
        THEN [error |-> "Number of cycles must be a whole number", result |-> null]
        ELSE IF ~fillValidation.valid
        THEN [error |-> "Fill Volume: " \o fillValidation.message, result |-> null]
        ELSE IF ~lastValidation.valid
        THEN [error |-> "Last Fill: " \o lastValidation.message, result |-> null]
        ELSE IF last > fill
        THEN [error |-> VALIDATION_MESSAGES.fillTooLarge, result |-> null]
        ELSE [error  |-> IF Truthy(roundingInfo, "outOfRange")
                         THEN roundingInfo.errorMessage ELSE "",
              result |-> Some(Merge(roundingInfo, [cycles |-> cycles]))]
totalFromCycles ==
    IF requestedCycles = Empty \/ fillVolume = Empty \/ lastFill = Empty
    THEN [error |-> VALIDATION_MESSAGES.allFieldsRequired, result |-> null]
    ELSE
    LET cycles == parseInt(requestedCycles)
        fill   == parseNumericInput(fillVolume)
        last   == parseNumericInput(lastFill)
        fillValidation == validateValue(fill, "fillVolume", fillMode)
        lastValidation == validateValue(last, "fillVolume", fillMode)
        total        == calculateVolumeFromCycles(cycles, fill, last)
        roundingInfo == applyRoundingToTotalVolume(total, fillMode)
    IN  IF isNaN(cycles) \/ isNaN(fill) \/ isNaN(last)
        THEN [error |-> VALIDATION_MESSAGES.invalidNumber, result |-> null]
        ELSE IF cycles <= 0
        THEN [error |-> "Number of cycles must be greater than 0", result |-> null]
        ELSE IF ~Number_isInteger(cycles)
        THEN [error |-> "Number of cycles must be a whole number", result |-> null]
        ELSE IF cycles > 100
        THEN [error |-> "Number of cycles seems too high (max 100)", result |-> null]
        ELSE IF ~fillValidation.valid
        THEN [error |-> "Fill Volume: " \o fillValidation.message, result |-> null]
        ELSE IF ~lastValidation.valid
        THEN [error |-> "Last Fill: " \o lastValidation.message, result |-> null]
        ELSE IF last > fill
        THEN [error |-> VALIDATION_MESSAGES.fillTooLarge, result |-> null]
        ELSE [error  |-> IF Truthy(roundingInfo, "outOfRange")
                         THEN roundingInfo.errorMessage ELSE "",
              result |-> Some(Merge(roundingInfo, [cycles |-> cycles]))]

\* lines 632-653, solving the cycles: the error and the cycle count
cyclesFromVolume ==
    IF totalVolume = Empty \/ lastFill = Empty \/ fillVolume = Empty
    THEN [error |-> VALIDATION_MESSAGES.allFieldsRequired, result |-> null]
    ELSE
    LET total == parseNumericInput(totalVolume)
        last  == parseNumericInput(lastFill)
        fill  == parseNumericInput(fillVolume)
        validationError == validateInputs(total, fill, last, fillMode)
    IN  IF isNaN(total) \/ isNaN(last) \/ isNaN(fill)
        THEN [error |-> VALIDATION_MESSAGES.invalidNumber, result |-> null]
        ELSE IF validationError # null
        THEN [error |-> validationError[1], result |-> null]
        ELSE [error |-> "",
              result |-> Some(calculateCyclesFromVolume(total, last, fill))]

\* the Calculate button of the standard form and Enter in one of its fields
handleCalculateCycles ==
    /\ pdMode = "cycles"
    /\ IF calculationMode = "solveTotalVolume"
       THEN /\ error' = totalFromCycles.error
            /\ calculatedCycles' = null
            /\ calculatedTotalVolume' = totalFromCycles.result
       ELSE /\ error' = cyclesFromVolume.error
            /\ calculatedCycles' = cyclesFromVolume.result
            /\ calculatedTotalVolume' = null
    /\ UNCHANGED <<modeVars, inputVars, tidalCycles, showTimeCalcs, unitVars>>

\* lines 724, 800
tidalDecimalOf(tidal) == tidal \div 100

\* lines 671-722 and 770-797 share the checks of the tidal settings
tidalSettingsError(tidal, fullDrain) ==
    IF tidal < Num(40) \/ tidal > Num(95)
    THEN Some(VALIDATION_MESSAGES.tidalRange)
    ELSE IF JsRem(tidal, Num(5)) # 0
    THEN Some(VALIDATION_MESSAGES.tidalIncrement)
    ELSE IF fullDrain < 1 \/ fullDrain > 10
    THEN Some(VALIDATION_MESSAGES.fullDrainRange)
    ELSE IF ~Number_isInteger(fullDrain)
    THEN Some(VALIDATION_MESSAGES.fullDrainInteger)
    ELSE null

\* lines 657-746, after setError('') and setCalculatedTotalVolume(null):
\* the outcomes the handler may leave (one, but for the error of the doubles)
totalFromTidalCycles ==
    IF \/ requestedCycles = Empty \/ fillVolume = Empty
       \/ tidalPercentage = Empty \/ fullDrainEvery = Empty \/ lastFill = Empty
    THEN {[error |-> VALIDATION_MESSAGES.allFieldsRequired, result |-> null]}
    ELSE
    LET cycles    == parseInt(requestedCycles)
        fill      == parseNumericInput(fillVolume)
        tidal     == parseFloat(tidalPercentage)
        fullDrain == parseInt(fullDrainEvery)
        last      == parseNumericInput(lastFill)
        fillValidation == validateValue(fill, "fillVolume", fillMode)
        lastValidation == validateValue(last, "fillVolume", fillMode)
        settingsError  == tidalSettingsError(tidal, fullDrain)
        tidalDecimal == tidalDecimalOf(tidal)
        fullDrainCount   == CeilDiv(cycles, fullDrain)
        tidalDrainCycles == cycles - fullDrainCount
        fullDrainVolume  == fullDrainCount * fill
    IN  IF \/ isNaN(cycles) \/ isNaN(fill) \/ isNaN(tidal)
           \/ isNaN(fullDrain) \/ isNaN(last)
        THEN {[error |-> VALIDATION_MESSAGES.invalidNumber, result |-> null]}
        ELSE IF cycles <= 0
        THEN {[error |-> "Number of cycles must be greater than 0", result |-> null]}
        ELSE IF ~Number_isInteger(cycles)
        THEN {[error |-> "Number of cycles must be a whole number", result |-> null]}
        ELSE IF cycles > 1000
        THEN {[error |-> "Number of cycles seems too high (max 1000)", result |-> null]}
        ELSE IF ~fillValidation.valid
        THEN {[error |-> "Fill Volume: " \o fillValidation.message, result |-> null]}
        ELSE IF ~lastValidation.valid
        THEN {[error |-> "Last Fill: " \o lastValidation.message, result |-> null]}
        ELSE IF last > fill
        THEN {[error |-> VALIDATION_MESSAGES.fillTooLarge, result |-> null]}
        ELSE IF settingsError # null
        THEN {[error |-> settingsError[1], result |-> null]}
        ELSE
        {LET roundingInfo == applyRoundingToTotalVolume(total, fillMode)
         IN  [error  |-> IF Truthy(roundingInfo, "outOfRange")
                         THEN roundingInfo.errorMessage ELSE "",
              result |-> Some(Merge(roundingInfo,
                  [cycles           |-> cycles,
                   tidalVolume      |-> MathRound(tidalVolume),
                   fullDrainVolume  |-> MathRound(fullDrainVolume),
                   lastFill         |-> last,
                   fullDrainCount   |-> fullDrainCount,
                   tidalDrainCycles |-> tidalDrainCycles]))]
         : total \in calculateVolumeFromTidalCycles(cycles, fill, last,
                                                    tidalDecimal, fullDrain),
           tidalVolume \in tidalVolumes(fill, tidalDecimal, tidalDrainCycles)}

\* lines 804-819: the result for one cycle count the search may return
tidalCyclesResults(bestCycles, total, fill, last, tidalDecimal, fullDrain) ==
    LET fullDrainCount   == CeilDiv(bestCycles, fullDrain)
        tidalDrainCycles == bestCycles - fullDrainCount
        fullDrainVolume  == fullDrainCount * fill
    IN  {[cycles           |-> bestCycles,
          calculatedTotal  |-> MathRound(calculatedTotal),
          requestedTotal   |-> total,
          difference       |-> MathRound(calculatedTotal - total),
          tidalVolume      |-> MathRound(tidalVolume),
          fullDrainVolume  |-> MathRound(fullDrainVolume),
          fullDrainCount   |-> fullDrainCount,
          tidalDrainCycles |-> tidalDrainCycles]
         : calculatedTotal \in
               calculateVolumeFromTidalCycles(bestCycles, fill, last,
                                              tidalDecimal, fullDrain),
           tidalVolume \in tidalVolumes(fill, tidalDecimal, tidalDrainCycles)}

\* lines 759-819, solving the cycles of a tidal treatment: the outcomes the
\* handler may leave
tidalCyclesFromVolume ==
    IF \/ totalVolume = Empty \/ fillVolume = Empty
       \/ tidalPercentage = Empty \/ fullDrainEvery = Empty \/ lastFill = Empty
    THEN {[error |-> VALIDATION_MESSAGES.allFieldsRequired, result |-> null]}
    ELSE
    LET total     == parseNumericInput(totalVolume)
        fill      == parseNumericInput(fillVolume)
        tidal     == parseFloat(tidalPercentage)
        fullDrain == parseInt(fullDrainEvery)
        last      == parseNumericInput(lastFill)
        validationError == validateInputs(total, fill, last, fillMode)
        settingsError   == tidalSettingsError(tidal, fullDrain)
        workingVolume == total - last
        tidalDecimal  == tidalDecimalOf(tidal)
    IN  IF \/ isNaN(total) \/ isNaN(fill) \/ isNaN(tidal)
           \/ isNaN(fullDrain) \/ isNaN(last)
        THEN {[error |-> VALIDATION_MESSAGES.invalidNumber, result |-> null]}
        ELSE IF validationError # null
        THEN {[error |-> validationError[1], result |-> null]}
        ELSE IF settingsError # null
        THEN {[error |-> settingsError[1], result |-> null]}
        ELSE {[error |-> "", result |-> Some(r)] :
                r \in UNION {tidalCyclesResults(bestCycles, total, fill, last,
                                                tidalDecimal, fullDrain)
                             : bestCycles \in calculateTidalCyclesCount(
                                   workingVolume, fill, tidalDecimal, fullDrain)}}

\* the Calculate button of the tidal form and Enter in one of its fields
handleCalculateTidalCycles ==
    /\ pdMode = "tidal"
    /\ IF calculationMode = "solveTotalVolume"
       THEN \E outcome \in totalFromTidalCycles :
               /\ error' = outcome.error
               /\ tidalCycles' = null
               /\ calculatedTotalVolume' = outcome.result
       ELSE \E outcome \in tidalCyclesFromVolume :
               /\ error' = outcome.error
               /\ tidalCycles' = outcome.result
               /\ calculatedTotalVolume' = null
    /\ UNCHANGED <<modeVars, inputVars, calculatedCycles, showTimeCalcs, unitVars>>

\* lines 535-547: Enter in a field of either form
handleKeyPress ==
    IF pdMode = "cycles" THEN handleCalculateCycles
    ELSE handleCalculateTidalCycles

\* lines 549-553: the first field of a form while the cycles are solved for
handleTotalVolumeChange(value) ==
    /\ calculationMode = "solveCycles"
    /\ totalVolume' = value
    /\ calculatedCycles' = null
    /\ error' = ""
    /\ UNCHANGED <<modeVars, requestedCycles, lastFill, fillVolume,
                   tidalPercentage, fullDrainEvery, treatmentTime,
                   calculatedTotalVolume, tidalCycles, showTimeCalcs, unitVars>>

\* lines 555-559: the first field while the total volume is solved for
handleRequestedCyclesChange(value) ==
    /\ calculationMode = "solveTotalVolume"
    /\ requestedCycles' = value
    /\ calculatedTotalVolume' = null
    /\ error' = ""
    /\ UNCHANGED <<modeVars, totalVolume, lastFill, fillVolume,
                   tidalPercentage, fullDrainEvery, treatmentTime,
                   calculatedCycles, tidalCycles, showTimeCalcs, unitVars>>

\* the fields wired to their setters alone (lines 969, 978, 1020, 1029)
setFillVolume(value) ==
    /\ fillVolume' = value
    /\ UNCHANGED <<modeVars, totalVolume, requestedCycles, lastFill,
                   tidalPercentage, fullDrainEvery, treatmentTime,
                   resultVars, error, showTimeCalcs, unitVars>>
setLastFill(value) ==
    /\ lastFill' = value
    /\ UNCHANGED <<modeVars, totalVolume, requestedCycles, fillVolume,
                   tidalPercentage, fullDrainEvery, treatmentTime,
                   resultVars, error, showTimeCalcs, unitVars>>
\* lines 1038, 1047: fields of the tidal form only
setTidalPercentage(value) ==
    /\ pdMode = "tidal"
    /\ tidalPercentage' = value
    /\ UNCHANGED <<modeVars, totalVolume, requestedCycles, lastFill, fillVolume,
                   fullDrainEvery, treatmentTime,
                   resultVars, error, showTimeCalcs, unitVars>>
setFullDrainEvery(value) ==
    /\ pdMode = "tidal"
    /\ fullDrainEvery' = value
    /\ UNCHANGED <<modeVars, totalVolume, requestedCycles, lastFill, fillVolume,
                   tidalPercentage, treatmentTime,
                   resultVars, error, showTimeCalcs, unitVars>>
\* lines 984-988, 1053-1057: the field shown with the time calculations
setTreatmentTime(value) ==
    /\ showTimeCalcs
    /\ treatmentTime' = value
    /\ UNCHANGED <<modeVars, totalVolume, requestedCycles, lastFill, fillVolume,
                   tidalPercentage, fullDrainEvery,
                   resultVars, error, showTimeCalcs, unitVars>>

\* line 944: the checkbox of the time calculations
setShowTimeCalcs(checked) ==
    /\ showTimeCalcs' = checked
    /\ UNCHANGED <<modeVars, inputVars, resultVars, error, unitVars>>

\* lines 921, 929: the two buttons of the calculation mode
setCalculationMode(mode) ==
    /\ calculationMode' = mode
    /\ UNCHANGED <<fillMode, pdMode, inputVars, resultVars, error,
                   showTimeCalcs, unitVars>>

\* lines 822-834: what resetFields sets
resetFields ==
    /\ totalVolume' = Empty /\ fillVolume' = Empty /\ lastFill' = Empty
    /\ calculatedCycles' = null /\ calculatedTotalVolume' = null
    /\ requestedCycles' = Empty
    /\ tidalCycles' = null
    /\ tidalPercentage' = Empty /\ fullDrainEvery' = Empty
    /\ treatmentTime' = Empty
    /\ error' = ""

\* lines 836-839
handleFillModeChange(newMode) ==
    /\ fillMode' = newMode
    /\ resetFields
    /\ UNCHANGED <<pdMode, calculationMode, showTimeCalcs, unitVars>>

\* lines 841-844
handlePdModeChange_NoReset(newType) ==
    /\ pdMode' = newType
    /\ UNCHANGED <<fillMode, calculationMode, inputVars, resultVars, error,
                   showTimeCalcs, unitVars>>
handlePdModeChange(newType) ==
    /\ pdMode' = newType
    /\ resetFields
    /\ UNCHANGED <<fillMode, calculationMode, showTimeCalcs, unitVars>>

\* lines 851-863: the time breakdown shown, null when none is
timeBreakdown ==
    IF ~showTimeCalcs \/ treatmentTime = Empty THEN null
    ELSE LET cycleCount ==
                 IF pdMode = "cycles"
                 THEN IF calculatedCycles # null THEN calculatedCycles[1]
                      ELSE IF requestedCycles = Empty THEN NaN
                      ELSE parseInt(requestedCycles)
                 ELSE IF tidalCycles # null THEN tidalCycles[1].cycles
                      ELSE IF requestedCycles = Empty THEN NaN
                      ELSE parseInt(requestedCycles)
         IN  IF cycleCount = 0 \/ isNaN(cycleCount) THEN null
             ELSE calculateTimeBreakdown(parseFloat(treatmentTime), cycleCount)

----------------------------------------------------------------------------
(* The component as constructed, and the direct applications *)

NoCall == [fn |-> "none"]

\* useState's initial values, lines 509-526
Constructed ==
    /\ fillMode = "low" /\ pdMode = "cycles" /\ calculationMode = "solveCycles"
    /\ totalVolume = Empty /\ requestedCycles = Empty /\ lastFill = Empty
    /\ fillVolume = Empty /\ tidalPercentage = Empty /\ fullDrainEvery = Empty
    /\ treatmentTime = Empty
    /\ calculatedCycles = null /\ calculatedTotalVolume = null
    /\ tidalCycles = null
    /\ error = "" /\ showTimeCalcs = FALSE

Called(fn) == call.fn = fn /\ ret = null

RoundToValidIncrement ==
    /\ Called("roundToValidIncrement")
    /\ ret' = Some(roundToValidIncrement(call.value, call.type, call.mode))
    /\ UNCHANGED <<stateVars, call>>

ValidateValue ==
    /\ Called("validateValue")
    /\ ret' = Some(validateValue(call.value, call.type, call.mode))
    /\ UNCHANGED <<stateVars, call>>

ValidateInputs ==
    /\ Called("validateInputs")
    /\ ret' = Some(validateInputs(call.total, call.fill, call.last, call.mode))
    /\ UNCHANGED <<stateVars, call>>

\* calculateTidalCyclesCount pass by pass: call holds the loop variable c,
\* bestCycles and the place in the function ("for": before the test
\* c <= MAX_TIDAL_CYCLES of line 220, "break": line 228 was taken)

\* lines 220-229: one pass of the loop body
tidalSearchPass ==
    /\ call.fn = "tidalSearch" /\ call.at = "for" /\ ret = null
    /\ call.c <= MAX_TIDAL_CYCLES
    /\ \E ulp \in Ulps :
          IF tidalFits(call.c, call.workingVolume, call.fillVolume,
                       call.tidalDecimal, call.fullDrainInterval, ulp)
          THEN call' = [call EXCEPT !.bestCycles = call.c, !.c = call.c + 1]
          ELSE call' = [call EXCEPT !.at = "break"]
    /\ UNCHANGED <<stateVars, ret>>

\* line 232: return bestCycles, after the break or the last pass
tidalSearchReturn ==
    /\ call.fn = "tidalSearch" /\ ret = null
    /\ \/ call.at = "break"
       \/ call.at = "for" /\ ~(call.c <= MAX_TIDAL_CYCLES)
    /\ ret' = Some(call.bestCycles)
    /\ UNCHANGED <<stateVars, call>>

CalculateTimeBreakdown ==
    /\ Called("calculateTimeBreakdown")
    /\ ret' = Some(calculateTimeBreakdown(call.treatmentTimeHours, call.cycles))
    /\ UNCHANGED <<stateVars, call>>

CalculateCyclesFromVolume ==
    /\ Called("calculateCyclesFromVolume")
    /\ ret' = Some(calculateCyclesFromVolume(call.totalVolume, call.lastFill,
                                             call.fillVolume))
    /\ UNCHANGED <<stateVars, call>>

CalculateTidalCyclesCount ==
    /\ Called("calculateTidalCyclesCount")
    /\ \E bestCycles \in calculateTidalCyclesCount(call.workingVolume,
              call.fillVolume, call.tidalDecimal, call.fullDrainInterval) :
          ret' = Some(bestCycles)
    /\ UNCHANGED <<stateVars, call>>

----------------------------------------------------------------------------
(* Rounding and validation of single values *)

RoundingSpan == 1

\* the wholes within span increments of an end of a range of the table
NearEdges(rules, span) ==
    UNION {UNION {(rules[i].range[j] - span * rules[i].increment) ..
                  (rules[i].range[j] + span * rules[i].increment) : j \in {1, 2}}
           : i \in DOMAIN rules}

\* the computed totals of the scenarios: 90000 (E) and 13440 (A)
ScenarioTotals == {90000, 13440}

\* the fractional parts tried: none, below a half, a half
Fractions == {0, (2 * Scale) \div 5, Scale \div 2}

RoundingValues(mode, type) ==
    {Num(n) + f : n \in NearEdges(INCREMENT_RULES[mode][type], RoundingSpan)
                        \cup ScenarioTotals,
                  f \in Fractions}

InitRounding ==
    /\ Constructed
    /\ ret = null
    /\ \E fn \in {"roundToValidIncrement", "validateValue"},
          mode \in FillModes, type \in QuantityTypes :
          \E value \in RoundingValues(mode, type) :
             call = [fn |-> fn, value |-> value, type |-> type, mode |-> mode]

NextRounding == RoundToValidIncrement \/ ValidateValue

SpecRounding == InitRounding /\ [][NextRounding]_vars

----------------------------------------------------------------------------
(* Claims about roundToValidIncrement *)

Rounded == call.fn = "roundToValidIncrement" /\ ret # null
CallRules == INCREMENT_RULES[call.mode][call.type]
RangesOf(rules) == {rules[i] : i \in DOMAIN rules}
\* the least and the greatest volume of a table, over all its ranges
TableMin(rules) ==
    CHOOSE m \in {r.range[1] : r \in RangesOf(rules)} :
        \A r \in RangesOf(rules) : m <= r.range[1]
TableMax(rules) ==
    CHOOSE m \in {r.range[2] : r \in RangesOf(rules)} :
        \A r \in RangesOf(rules) : m >= r.range[2]
InSomeRange(rules, n) ==
    \E r \in RangesOf(rules) : r.range[1] <= n /\ n <= r.range[2]

\* C1: whatever the mode, the type and the value (inside the table, above
\* it or below it), the rounded value roundToValidIncrement returns is
\* accepted by validateValue for the same mode and type: it lies in a
\* configured range and is a multiple of the increment of the first range
\* that holds it.
C1_RoundedIsAccepted ==
    Rounded =>
        LET rounded == ret[1].rounded
            hits    == matchingRules(CallRules, rounded)
        IN  /\ validateValue(Num(rounded), call.type, call.mode).valid
            /\ hits # {}
            /\ rounded % CallRules[firstOf(hits)].increment = 0

\* a fractional value inside a range that is rounded up
C1_Witness ==
    /\ Rounded
    /\ call.value % Scale # 0
    /\ ret[1].wasRounded /\ ~Truthy(ret[1], "outOfRange")
    /\ ret[1].rounded > MathRound(call.value)

\* C2: for a value inside the table's overall span, whole or not, the
\* rounded value is never below the value; a result below the input occurs
\* only for an input outside the table.
C2_NeverBelowInput ==
    (/\ Rounded
     /\ call.value >= Num(TableMin(CallRules))
     /\ call.value <= Num(TableMax(CallRules)))
        => Num(ret[1].rounded) >= call.value

\* C3: a whole value inside a range that is a multiple of the range's
\* increment is returned unchanged with wasRounded = FALSE; any other whole
\* value inside a range is rounded to the smallest multiple of the increment
\* above it, with wasRounded = TRUE, so 0 < rounded - value < increment.
C3_RoundsUpWithinIncrement ==
    (Rounded /\ call.value % Scale = 0) =>
        LET value == call.value \div Scale
        IN  \A r \in RangesOf(CallRules) :
                (r.range[1] <= value /\ value <= r.range[2]) =>
                    IF value % r.increment = 0
                    THEN ret[1].rounded = value /\ ~ret[1].wasRounded
                    ELSE /\ ret[1].wasRounded
                         /\ ret[1].rounded % r.increment = 0
                         /\ 0 < ret[1].rounded - value
                         /\ ret[1].rounded - value < r.increment

\* a whole value that is not a multiple, next to the top of its range
C3_Witness ==
    /\ Rounded
    /\ call.value % Scale = 0
    /\ ret[1].wasRounded /\ ~Truthy(ret[1], "outOfRange")
    /\ \E r \in RangesOf(CallRules) : ret[1].rounded = r.range[2]

\* C4: a whole value outside every range is clamped to the table's greatest
\* volume when above it and to its least volume when below it, with
\* outOfRange set; 90000 in low mode totalVolume gives 80000; outOfRange is
\* never set for a whole value inside the table.
C4_ClampsOutsideTable ==
    Rounded =>
        LET whole == MathRound(call.value)
        IN  /\ (~InSomeRange(CallRules, whole) /\ whole > TableMax(CallRules)) =>
                    /\ ret[1].rounded = TableMax(CallRules)
                    /\ Truthy(ret[1], "outOfRange")
            /\ (~InSomeRange(CallRules, whole) /\ whole < TableMin(CallRules)) =>
                    /\ ret[1].rounded = TableMin(CallRules)
                    /\ Truthy(ret[1], "outOfRange")
            /\ ~InSomeRange(CallRules, whole) =>
                    (whole > TableMax(CallRules) \/ whole < TableMin(CallRules))
            /\ InSomeRange(CallRules, whole) => ~Truthy(ret[1], "outOfRange")
            /\ (/\ call.value = Num(90000) /\ call.mode = "low"
                 /\ call.type = "totalVolume") =>
                    ret[1].rounded = 80000 /\ Truthy(ret[1], "outOfRange")

\* scenario E has been rounded
C4_Witness ==
    /\ Rounded
    /\ call.value = Num(90000) /\ call.mode = "low" /\ call.type = "totalVolume"
    /\ ret[1].rounded = 80000

----------------------------------------------------------------------------
(* The standard solver applied to arbitrary numbers *)

SolverSpan == 12

\* totals 0, 250, ..., lasts 0, 60, ..., fills of either sign in steps of 20
\* and of 20.5; scenario B (3000, 120, 240) is among them
SolverTotals == {Num(250 * k) : k \in 0..SolverSpan}
SolverLasts  == {Num(60 * k) : k \in 0..SolverSpan}
SolverFills  == {Num(20 * k) + f : k \in (-SolverSpan)..SolverSpan,
                                   f \in {0, Scale \div 2}}

InitSolver ==
    /\ Constructed
    /\ ret = null
    /\ \E total \in SolverTotals, last \in SolverLasts, fill \in SolverFills :
          call = [fn |-> "calculateCyclesFromVolume", totalVolume |-> total,
                  lastFill |-> last, fillVolume |-> fill]

NextSolver == CalculateCyclesFromVolume

SpecSolver == InitSolver /\ [][NextSolver]_vars

Solved == call.fn = "calculateCyclesFromVolume" /\ ret # null

C6_ZeroUnlessFillPositive ==
    (Solved /\ ~(call.fillVolume > 0)) =>
        /\ ret[1] = 0
        /\ calculateCyclesBranch(call.fillVolume) = "return 0"

\* C6 as amended: whenever fill is zero, the cycle count is 0 and no
\* division is performed (the result is neither Infinity nor NaN).
C6_ZeroWhenFillZero ==
    (Solved /\ call.fillVolume = 0) =>
        /\ ret[1] = 0
        /\ calculateCyclesBranch(call.fillVolume) = "return 0"

\* a fill of zero with volume left to deliver has been solved
C6_Witness ==
    /\ Solved
    /\ call.fillVolume = 0
    /\ call.totalVolume - call.lastFill > 0
    /\ ret[1] = 0

----------------------------------------------------------------------------
(* The standard form: fields as typed, then Calculate *)

EdgeSpan == 1

\* the valid volumes within span increments of an end of a range
ValidNear(rules, span) ==
    UNION {{r.range[1] + j * r.increment : j \in 0..span} \cup
           {r.range[2] - j * r.increment : j \in 0..span} : r \in RangesOf(rules)}

\* what is typed into a volume field: nothing, no number, a valid volume,
\* a valid volume and a half, a volume off the increment, a volume beyond
\* the table, zero, a negative volume
VolumeTexts(rules, span) ==
    {Empty, Text(NaN), Text(0), Text(-Num(100))}
    \cup {Text(Num(v)) : v \in ValidNear(rules, span)}
    \cup {Text(Num(TableMin(rules)) + Scale \div 2),
          Text(Num(rules[Len(rules)].range[1] + 1)),
          Text(Num(TableMax(rules) + rules[Len(rules)].increment))}

\* what is typed into the cycles field
CycleTexts(counts) ==
    {Empty, Text(NaN), Text(Num(3) + Scale \div 2)}
    \cup {Text(Num(k)) : k \in counts}

NoResults ==
    /\ calculatedCycles = null /\ calculatedTotalVolume = null
    /\ tidalCycles = null /\ error = ""
    /\ call = NoCall /\ ret = null

InitCalcCycles ==
    /\ fillMode \in FillModes
    /\ pdMode = "cycles"
    /\ calculationMode \in CalcModes
    /\ fillVolume \in VolumeTexts(INCREMENT_RULES[fillMode].fillVolume, EdgeSpan)
    /\ lastFill \in VolumeTexts(INCREMENT_RULES[fillMode].fillVolume, EdgeSpan)
    /\ IF calculationMode = "solveCycles"
       THEN /\ totalVolume \in
                  VolumeTexts(INCREMENT_RULES[fillMode].totalVolume, EdgeSpan)
            /\ requestedCycles = Empty
       ELSE /\ totalVolume = Empty
            /\ requestedCycles \in CycleTexts({0, 1, 2, 12, 100, 101})
    /\ tidalPercentage = Empty /\ fullDrainEvery = Empty
    /\ treatmentTime = Empty /\ showTimeCalcs = FALSE
    /\ NoResults

NextCalcCycles == handleCalculateCycles

SpecCalcCycles == InitCalcCycles /\ [][NextCalcCycles]_vars

\* the numbers in the fields
Total == parseNumericInput(totalVolume)
Fill  == parseNumericInput(fillVolume)
Last  == parseNumericInput(lastFill)

----------------------------------------------------------------------------
(* The tidal form: fields as typed, then Calculate *)

MaxCycles == 10

\* the fill volumes typed in the tidal form: none, the volume next to the
\* least of the table, its greatest, and the 1400 of scenario A
TidalFillTexts(rules) ==
    {Empty}
    \cup {Text(Num(v)) : v \in {TableMin(rules) + rules[1].increment,
                                TableMax(rules), 1400}}
\* the last fills typed: the least of the table and the 700 of scenario A
TidalLastTexts(rules) == {Text(Num(v)) : v \in {TableMin(rules), 700}}

\* 35, 40, ..., 95 and 42 per cent
TidalPercentTexts == {Text(Num(5 * k)) : k \in 7..19} \cup {Text(Num(42))}
FullDrainTexts    == {Text(Num(k)) : k \in 0..11}
TidalTotalTexts   == {Text(Num(v)) : v \in {200, 13500, 80000}}
TidalCycleTexts   == {Text(Num(k)) : k \in 0..MaxCycles}
                     \cup {Text(Num(MAX_TIDAL_CYCLES)), Text(Num(MAX_TIDAL_CYCLES + 1))}

InitTidal ==
    /\ fillMode \in FillModes
    /\ pdMode = "tidal"
    /\ calculationMode \in CalcModes
    /\ fillVolume \in TidalFillTexts(INCREMENT_RULES[fillMode].fillVolume)
    /\ lastFill \in TidalLastTexts(INCREMENT_RULES[fillMode].fillVolume)
    /\ IF calculationMode = "solveCycles"
       THEN totalVolume \in TidalTotalTexts /\ requestedCycles = Empty
       ELSE totalVolume = Empty /\ requestedCycles \in TidalCycleTexts
    /\ tidalPercentage \in TidalPercentTexts
    /\ fullDrainEvery \in FullDrainTexts
    /\ treatmentTime = Empty /\ showTimeCalcs = FALSE
    /\ NoResults

NextTidal == handleCalculateTidalCycles

SpecTidal == InitTidal /\ [][NextTidal]_vars

\* the numbers in the fields of the tidal form
Cycles    == parseInt(requestedCycles)
Tidal     == parseFloat(tidalPercentage)
FullDrain == parseInt(fullDrainEvery)

TidalTotalSolved ==
    pdMode = "tidal" /\ calculationMode = "solveTotalVolume"
    /\ calculatedTotalVolume # null

\* fill * (tidal / 100) * n for a fill in halves and a percentage in fives
TidalShare(fill, tidal, n) ==
    (fill \div (100 \div 5)) * ((tidal \div Scale) \div 5) * n

\* n is a whole nearest to x: either neighbour when x lies half way
NearestWhole(n, x) == 2 * (Num(n) - x) \in (-Scale)..Scale

ScenarioA ==
    /\ fillMode = "standard"
    /\ Fill = Num(1400) /\ Last = Num(700) /\ Tidal = Num(85)
    /\ FullDrain = 3 /\ Cycles = 10

\* C8: for cycles >= 1, an interval in 1..10, a percentage in 40, 45, ..., 95
\* and valid fill and last volumes, the forward computation yields
\* fullDrainCount = ceil(cycles / interval), tidalDrainCycles = cycles -
\* fullDrainCount, tidalVolume = fill * fraction * tidalDrainCycles,
\* fullDrainVolume = fullDrainCount * fill and total = tidalVolume +
\* fullDrainVolume + last, each up to the error of the doubles (the result
\* shows the whole nearest to each); for scenario A these are 4, 6, 7140,
\* 5600, 13440, programmable 13500.
C8_TidalForward ==
    TidalTotalSolved =>
        LET r == calculatedTotalVolume[1]
            k == r.fullDrainCount
            tidalVolume     == TidalShare(Fill, Tidal, r.tidalDrainCycles)
            fullDrainVolume == k * Fill
            total           == tidalVolume + fullDrainVolume + Last
        IN  /\ Cycles >= 1 /\ FullDrain \in 1..10
            /\ Tidal \in {Num(5 * j) : j \in 8..19}
            /\ (k - 1) * FullDrain < Cycles /\ Cycles <= k * FullDrain
            /\ r.tidalDrainCycles = Cycles - k
            /\ NearestWhole(r.tidalVolume, tidalVolume)
            /\ r.fullDrainVolume = MathRound(fullDrainVolume)
            /\ \A computed \in calculateVolumeFromTidalCycles(Cycles, Fill, Last,
                                  tidalDecimalOf(Tidal), FullDrain) :
                    computed - total \in Ulps
            /\ NearestWhole(r.calculated, total)
            /\ ScenarioA =>
                    /\ k = 4 /\ r.tidalDrainCycles = 6 /\ r.tidalVolume = 7140
                    /\ r.fullDrainVolume = 5600 /\ r.calculated = 13440
                    /\ r.programmable = 13500

\* scenario A has been calculated
C8_Witness ==
    /\ TidalTotalSolved /\ ScenarioA
    /\ calculatedTotalVolume[1].programmable = 13500

\* the forward volume of c cycles without the last fill, as the doubles
\* may give it
ForwardVolume(c) ==
    calculateVolumeFromTidalCycles(c, Fill, 0, tidalDecimalOf(Tidal), FullDrain)

\* C9: for every request validation accepts, the cycle count c the tidal
\* search returns for workingVolume = total - last satisfies
\* forwardVolume(c) <= workingVolume and forwardVolume(c + 1) > workingVolume.
C9_SearchIsTight ==
    (pdMode = "tidal" /\ tidalCycles # null) =>
        LET c == tidalCycles[1].cycles
            workingVolume == Total - Last
        IN  /\ \E volume \in ForwardVolume(c) : volume <= workingVolume
            /\ \E volume \in ForwardVolume(c + 1) : volume > workingVolume

----------------------------------------------------------------------------
(* The tidal search applied to arbitrary budgets *)

SearchBudgets == {Num(v) : v \in {-2800, 140, 79940}}
SearchFills   == {Num(v) : v \in {-60, 0, 1400, 3000}}
                 \cup {Num(60) + Scale \div 2}
\* 0.40, 0.45, ..., 0.95
SearchFractions == {tidalDecimalOf(Num(5 * k)) : k \in 8..19}

InitSearch ==
    /\ Constructed
    /\ ret = null
    /\ \E workingVolume \in SearchBudgets, fill \in SearchFills,
          tidalDecimal \in SearchFractions, fullDrainInterval \in 1..10 :
          call = [fn |-> "calculateTidalCyclesCount",
                  workingVolume |-> workingVolume, fillVolume |-> fill,
                  tidalDecimal |-> tidalDecimal,
                  fullDrainInterval |-> fullDrainInterval]

NextSearch == CalculateTidalCyclesCount

SpecSearch == InitSearch /\ [][NextSearch]_vars

Searched == call.fn = "calculateTidalCyclesCount" /\ ret # null

SearchVolume(c) ==
    tidalCalculatedVolume(c, call.fillVolume, call.tidalDecimal,
                          call.fullDrainInterval)

\* C10: for fill >= 0, a fraction in 0.40 .. 0.95 and an interval in 1..10,
\* the volume the search compares is non-decreasing over c = 1, ..., 1000:
\* each further cycle adds fill * fraction (a tidal cycle) or fill (a
\* full-drain cycle).  The volumes are the exact ones; rounding to a double
\* keeps their order.
C10_VolumeNonDecreasing ==
    (Searched /\ call.fillVolume >= 0) =>
        \A c \in 1..MAX_TIDAL_CYCLES :
            LET step == SearchVolume(c + 1) - SearchVolume(c)
            IN  /\ step >= 0
                /\ step \in {Mul(call.fillVolume, call.tidalDecimal),
                             call.fillVolume}

\* a search that compared every c up to the cap, with a positive fill
C10_Witness ==
    /\ Searched
    /\ call.fillVolume > 0
    /\ ret[1] = MAX_TIDAL_CYCLES

----------------------------------------------------------------------------
(* Claims about validateValue *)

Validated == call.fn = "validateValue" /\ ret # null

\* C11: whatever the mode and the type, validateValue rejects every value
\* with a fractional part: a fractional value is never reported valid.
C11_FractionalRejected ==
    (Validated /\ call.value % Scale # 0) => ~ret[1].valid

\* the ranges of a table that hold the whole n, by their place in the table
Holding(rules, n) ==
    {i \in DOMAIN rules : rules[i].range[1] <= n /\ n <= rules[i].range[2]}

\* C12: for a whole value held by at least one range of the table, the first
\* such range alone decides: the value is valid iff it is a multiple of that
\* range's increment, and otherwise the failure cites that range's increment
\* and bounds; a whole value no range holds fails citing the first range's
\* minimum and the last range's maximum.
C12_FirstRangeDecides ==
    (Validated /\ call.value % Scale = 0) =>
        LET n       == call.value \div Scale
            holding == Holding(CallRules, n)
        IN  IF holding # {}
            THEN LET first == CHOOSE i \in holding : \A j \in holding : i <= j
                     rule  == CallRules[first]
                 IN  /\ ret[1].valid <=> (n % rule.increment = 0)
                     /\ ~ret[1].valid =>
                            ret[1].message =
                                "Must be in increments of "
                                \o ToString(rule.increment) \o " mL for range "
                                \o ToString(rule.range[1]) \o "-"
                                \o ToString(rule.range[2]) \o " mL"
            ELSE /\ ~ret[1].valid
                 /\ ret[1].message =
                        "Value must be between "
                        \o ToString(CallRules[1].range[1]) \o " and "
                        \o ToString(CallRules[Len(CallRules)].range[2]) \o " mL"

\* a whole value inside a range has been refused for its increment
C12_Witness ==
    /\ Validated /\ call.value % Scale = 0
    /\ Holding(CallRules, call.value \div Scale) # {}
    /\ ~ret[1].valid

----------------------------------------------------------------------------
(* validateInputs applied to arbitrary numbers *)

\* the numbers handed over: those typed into a volume field, as numbers
ValidateNumbers(rules) ==
    {parseNumericInput(text) : text \in VolumeTexts(rules, EdgeSpan) \ {Empty}}

InitValidate ==
    /\ Constructed
    /\ ret = null
    /\ \E mode \in FillModes :
          \E total \in ValidateNumbers(INCREMENT_RULES[mode].totalVolume),
             fill \in ValidateNumbers(INCREMENT_RULES[mode].fillVolume),
             last \in ValidateNumbers(INCREMENT_RULES[mode].fillVolume) :
             call = [fn |-> "validateInputs", total |-> total, fill |-> fill,
                     last |-> last, mode |-> mode]

NextValidate == ValidateInputs

SpecValidate == InitValidate /\ [][NextValidate]_vars

InputsValidated == call.fn = "validateInputs" /\ ret # null

\* a > b of two numbers, false when either is NaN
Greater(a, b) == ~isNaN(a) /\ ~isNaN(b) /\ a > b

\* the six checks in their order: whether each fails, and its reason
InputChecks ==
    LET totalValidation == validateValue(call.total, "totalVolume", call.mode)
        fillValidation  == validateValue(call.fill, "fillVolume", call.mode)
        lastValidation  == validateValue(call.last, "fillVolume", call.mode)
    IN  << [fails  |-> call.fill = 0,
            reason |-> "Fill volume must be greater than 0"],
           [fails  |-> ~totalValidation.valid,
            reason |-> IF totalValidation.valid THEN ""
                       ELSE "Total Volume: " \o totalValidation.message],
           [fails  |-> ~fillValidation.valid,
            reason |-> IF fillValidation.valid THEN ""
                       ELSE "Fill Volume: " \o fillValidation.message],
           [fails  |-> ~lastValidation.valid,
            reason |-> IF lastValidation.valid THEN ""
                       ELSE "Last Fill: " \o lastValidation.message],
           [fails  |-> Greater(call.last, call.fill),
            reason |-> "Last fill must be less than or equal to fill volume"],
           [fails  |-> Greater(0, call.fill) \/ call.fill = 0,
            reason |-> "Fill volume must be greater than 0"] >>

FailingChecks == {i \in DOMAIN InputChecks : InputChecks[i].fails}

\* C13: validateInputs surfaces exactly the reason of the first failing check
\* in the order fill == 0, total against its table, fill against its table,
\* last against the fill table, last > fill, fill <= 0; later failures are
\* masked; it returns none exactly when no check fails.
C13_FirstFailureSurfaces ==
    InputsValidated =>
        IF FailingChecks = {}
        THEN ret[1] = null
        ELSE LET first == CHOOSE i \in FailingChecks :
                              \A j \in FailingChecks : i <= j
             IN  ret[1] = Some(InputChecks[first].reason)

\* a fill of zero has masked an invalid total
C13_Witness ==
    /\ InputsValidated
    /\ call.fill = 0
    /\ {2, 4} \subseteq FailingChecks
    /\ ret[1] = Some(VALIDATION_MESSAGES.fillTooSmall)

\* C19: the final guard fill <= 0 is redundant: in both fill modes, whenever
\* the first five checks have passed, fill is greater than 0 and
\* validateInputs returns none; the reason of the guard is surfaced for a
\* fill of zero only.
C19_FinalGuardRedundant ==
    InputsValidated =>
        /\ FailingChecks \cap (1..5) = {} =>
                call.fill > 0 /\ ret[1] = null
        /\ ret[1] = Some(VALIDATION_MESSAGES.fillTooSmall) => call.fill = 0

\* the first five checks have passed and control has reached the guard
C19_Witness ==
    /\ InputsValidated
    /\ FailingChecks \cap (1..5) = {}
    /\ call.last < call.fill
    /\ ret[1] = null

----------------------------------------------------------------------------
(* Claims about the tables of INCREMENT_RULES *)

\* the values two ranges both hold
SharedValues(r, q) ==
    (IF r.range[1] >= q.range[1] THEN r.range[1] ELSE q.range[1]) ..
    (IF r.range[2] <= q.range[2] THEN r.range[2] ELSE q.range[2])

\* C14 as claimed: in each table the ranges are in ascending order and
\* pairwise non-overlapping: no value lies in the closed interval
\* [min, max] of two different ranges of the table.
C14_NoValueInTwoRanges ==
    Validated =>
        \A i, j \in DOMAIN CallRules :
            i < j => /\ CallRules[i].range[2] <= CallRules[j].range[1]
                     /\ SharedValues(CallRules[i], CallRules[j]) = {}

\* C14 as amended: in each table the ranges are in ascending order, and two
\* different ranges share at most one value, the boundary where the maximum
\* of one is the minimum of the next; that value is a multiple of both
\* increments, so no value is valid for one range that holds it and off the
\* increment of another.
C14_RangesTouchOnly ==
    Validated =>
        \A i, j \in DOMAIN CallRules :
            i < j =>
                /\ CallRules[i].range[1] <= CallRules[i].range[2]
                /\ CallRules[i].range[2] <= CallRules[j].range[1]
                /\ \A n \in SharedValues(CallRules[i], CallRules[j]) :
                       /\ n = CallRules[i].range[2] /\ n = CallRules[j].range[1]
                       /\ n % CallRules[i].increment = 0
                       /\ n % CallRules[j].increment = 0

\* a value on the boundary two ranges share has been validated
C14_Witness ==
    /\ Validated /\ call.value % Scale = 0
    /\ \E i, j \in DOMAIN CallRules :
          i < j /\ call.value \div Scale \in SharedValues(CallRules[i], CallRules[j])
    /\ ret[1].valid

----------------------------------------------------------------------------
(* The time breakdown applied to arbitrary durations and cycle counts *)

TimeSpan == 16

\* durations in quarters of an hour, of either sign, and no number; the
\* cycle counts the forms produce: -1 (a total below the last fill), 0 and
\* up, 100 and 1000, and no number
TimeHours  == {(k * Scale) \div 4 : k \in (-4)..(4 * TimeSpan)} \cup {NaN}
TimeCycles == ((-1)..(2 * TimeSpan)) \cup {100, MAX_TIDAL_CYCLES, NaN}

InitTime ==
    /\ Constructed
    /\ ret = null
    /\ \E hours \in TimeHours, cycles \in TimeCycles :
          call = [fn |-> "calculateTimeBreakdown",
                  treatmentTimeHours |-> hours, cycles |-> cycles]

NextTime == CalculateTimeBreakdown

SpecTime == InitTime /\ [][NextTime]_vars

TimeCalculated == call.fn = "calculateTimeBreakdown" /\ ret # null

\* the fields of a breakdown that are numbers
TimeFields ==
    {"timePerCycleHours", "timePerCycleMinutes", "dwellTimeMinutes",
     "dwellTimeHours", "fillTimeMinutes", "drainTimeMinutes",
     "totalDwellTimeHours", "totalFillDrainTimeMinutes",
     "totalTreatmentMinutes"}

\* hours * 60 - 15 * cycles in fixed point
DwellLeft == (call.treatmentTimeHours * 60) - Num(15 * call.cycles)

PositiveCall ==
    /\ ~isNaN(call.treatmentTimeHours) /\ ~isNaN(call.cycles)
    /\ call.treatmentTimeHours > 0 /\ call.cycles > 0

\* C15: for hours > 0 and cycles > 0 with hours * 60 - 15 * cycles >= 0 the
\* breakdown has no error and totalMinutes = hours * 60, totalOverhead =
\* 15 * cycles, totalDwell = totalMinutes - totalOverhead, dwellPerCycle =
\* totalDwell / cycles, timePerCycle = totalMinutes / cycles, fill = drain =
\* 7.5 minutes, so timePerCycle = dwellPerCycle + 15; 8 hours and 12 cycles
\* give 480, 180, 300, 25, 40.
C15_TimeBreakdown ==
    (TimeCalculated /\ PositiveCall /\ DwellLeft >= 0) =>
        /\ ret[1] # null
        /\ LET r == ret[1][1]
               hours  == call.treatmentTimeHours
               cycles == call.cycles
           IN  /\ ~Has(r, "error")
               /\ r.totalTreatmentMinutes = Rat(hours * 60, Scale)
               /\ r.totalFillDrainTimeMinutes = Whole(15 * cycles)
               /\ r.totalDwellTimeHours = Rat(DwellLeft, Scale * 60)
               /\ r.dwellTimeMinutes = Rat(DwellLeft, Scale * cycles)
               /\ r.timePerCycleMinutes = Rat(hours * 60, Scale * cycles)
               /\ r.fillTimeMinutes = Rat(15, 2)
               /\ r.drainTimeMinutes = Rat(15, 2)
               /\ RatSub(r.timePerCycleMinutes, r.dwellTimeMinutes) = Whole(15)
               /\ (hours = Num(8) /\ cycles = 12) =>
                      /\ r.totalTreatmentMinutes = Whole(480)
                      /\ r.totalFillDrainTimeMinutes = Whole(180)
                      /\ r.totalDwellTimeHours = Whole(5)
                      /\ r.dwellTimeMinutes = Whole(25)
                      /\ r.timePerCycleMinutes = Whole(40)

\* scenario C: 8 hours and 12 cycles have been broken down
C15_Witness ==
    /\ TimeCalculated
    /\ call.treatmentTimeHours = Num(8) /\ call.cycles = 12
    /\ ret[1] # null
    /\ ret[1][1].dwellTimeMinutes = Whole(25)

\* C16: for hours > 0 and cycles > 0 the breakdown is the error state
\* exactly when hours * 60 - 15 * cycles < 0, and every numeric field of
\* the error state is 0 (1 hour and 12 cycles is an error); a total dwell of
\* exactly 0 is no error; no numeric field returned is ever negative.
C16_ErrorStateAndNoNegative ==
    (TimeCalculated /\ ret[1] # null) =>
        LET r == ret[1][1]
        IN  /\ PositiveCall =>
                   /\ Has(r, "error") <=> DwellLeft < 0
                   /\ Has(r, "error") => \A f \in TimeFields : r[f] = Whole(0)
                   /\ (call.treatmentTimeHours = Num(1) /\ call.cycles = 12)
                          => Has(r, "error")
            /\ \A f \in TimeFields : ~RatLess(r[f], Whole(0))

----------------------------------------------------------------------------
(* The tidal search pass by pass *)

\* budgets: no number, negative, small, large, unbounded; fills: negative,
\* zero, the least valid and a half, 1400
LoopBudgets   == {NaN, Infinity} \cup {Num(v) : v \in {-2800, 140, 79940}}
LoopFills     == {Num(v) : v \in {-60, 0, 1400}} \cup {Num(60) + Scale \div 2}
LoopIntervals == {1, 3}

InitLoop ==
    /\ Constructed
    /\ ret = null
    /\ \E workingVolume \in LoopBudgets, fill \in LoopFills,
          fullDrainInterval \in LoopIntervals :
          call = [fn |-> "tidalSearch", at |-> "for", c |-> 1, bestCycles |-> 0,
                  workingVolume |-> workingVolume, fillVolume |-> fill,
                  tidalDecimal |-> tidalDecimalOf(Num(85)),
                  fullDrainInterval |-> fullDrainInterval]

NextLoop == tidalSearchPass \/ tidalSearchReturn

\* the loop is synchronous code: it runs until it returns
SpecLoop == InitLoop /\ [][NextLoop]_vars /\ WF_vars(NextLoop)

\* the passes of the loop body made so far
PassesMade == IF call.at = "break" THEN call.c ELSE call.c - 1

LoopBounded ==
    call.fn = "tidalSearch" =>
        /\ PassesMade \in 0..1000
        /\ call.at = "break" => call.c \in 1..1000
        /\ call.bestCycles \in 0..1000
        /\ ret # null => ret[1] \in 0..1000

\* C18: for every input the tidal search terminates after at most 1000
\* passes of its loop and returns a whole in 0..1000; it never evaluates a
\* candidate cycle count above 1000.
C18_SearchBounded == []LoopBounded /\ <>(ret # null)

\* the search has made all 1000 passes and returned 1000
C18_Witness ==
    /\ call.fn = "tidalSearch" /\ call.at = "for"
    /\ PassesMade = 1000
    /\ ret = Some(1000)

----------------------------------------------------------------------------
(* Claims about the handlers of the standard form *)

\* the preconditions of a total volume from cycles, on the fields as typed
TotalPreconditions ==
    /\ requestedCycles # Empty /\ fillVolume # Empty /\ lastFill # Empty
    /\ ~isNaN(Cycles) /\ ~isNaN(Fill) /\ ~isNaN(Last)
    /\ Cycles \in 1..100
    /\ validateValue(Fill, "fillVolume", fillMode).valid
    /\ validateValue(Last, "fillVolume", fillMode).valid
    /\ Last <= Fill

\* C20: in the standard form solving the total volume, Calculate produces a
\* result only when cycles is a positive whole of at most 100, fill and last
\* each pass validateValue against the fillVolume table and last <= fill;
\* on any violated precondition a failure reason is set and the
\* total-volume result stays null.
C20_TotalOnlyWhenPreconditions ==
    [][(pdMode = "cycles" /\ calculationMode = "solveTotalVolume"
        /\ ~TotalPreconditions)
       => (error' # "" /\ calculatedTotalVolume' = null)]_vars

\* a total volume has been calculated for the most cycles allowed
C20_Witness ==
    /\ pdMode = "cycles" /\ calculationMode = "solveTotalVolume"
    /\ calculatedTotalVolume # null
    /\ TotalPreconditions /\ Cycles = 100
    /\ calculatedTotalVolume[1].cycles = 100

----------------------------------------------------------------------------
(* Both forms: fields as typed, then Calculate *)

\* fill volumes typed: none, no number, the least and the greatest of the
\* table, the least and a half; last fills: the least and the greatest
FormFillTexts(rules) ==
    {Empty, Text(NaN), Text(Num(TableMin(rules))), Text(Num(TableMax(rules))),
     Text(Num(TableMin(rules)) + Scale \div 2)}
FormLastTexts(rules) ==
    {Text(Num(TableMin(rules))), Text(Num(TableMax(rules)))}
FormTotalTexts   == {Text(Num(v)) : v \in {200, 225, 13500, 80000}}
FormCycleTexts   == {Text(Num(k)) : k \in {0, 1, 12, 100, 101, MAX_TIDAL_CYCLES}}
FormPercentTexts == {Text(Num(k)) : k \in {40, 42, 85}}
FormDrainTexts   == {Text(Num(k)) : k \in {0, 3}}

InitForms ==
    /\ fillMode \in FillModes
    /\ pdMode \in PDModes
    /\ calculationMode \in CalcModes
    /\ fillVolume \in FormFillTexts(INCREMENT_RULES[fillMode].fillVolume)
    /\ lastFill \in FormLastTexts(INCREMENT_RULES[fillMode].fillVolume)
    /\ IF calculationMode = "solveCycles"
       THEN totalVolume \in FormTotalTexts /\ requestedCycles = Empty
       ELSE totalVolume = Empty /\ requestedCycles \in FormCycleTexts
    /\ IF pdMode = "tidal"
       THEN tidalPercentage \in FormPercentTexts /\ fullDrainEvery \in FormDrainTexts
       ELSE tidalPercentage = Empty /\ fullDrainEvery = Empty
    /\ treatmentTime = Empty /\ showTimeCalcs = FALSE
    /\ NoResults

NextForms == handleCalculateCycles \/ handleCalculateTidalCycles

SpecForms == InitForms /\ [][NextForms]_vars

\* a result record or a cycle count is held
ResultHeld ==
    calculatedCycles # null \/ calculatedTotalVolume # null \/ tidalCycles # null

\* C17 as claimed: every calculation request ends with exactly one of a
\* result record and a failure reason: the state never holds both a
\* non-empty error and a non-null result.
C17_NeverErrorAndResult == ~(error # "" /\ ResultHeld)

\* a total volume is held whose computed value lies outside the table
TotalOutsideTable ==
    /\ calculatedTotalVolume # null
    /\ ~InSomeRange(INCREMENT_RULES[fillMode].totalVolume,
                    calculatedTotalVolume[1].calculated)

OutputAfterCalculate ==
    /\ error # "" \/ ResultHeld
    /\ (error # "" /\ ResultHeld) <=> TotalOutsideTable
    /\ TotalOutsideTable =>
           /\ Truthy(calculatedTotalVolume[1], "outOfRange")
           /\ error = calculatedTotalVolume[1].errorMessage

\* C17 as amended: every calculation request ends with a failure reason, a
\* result, or both, never with neither; it ends with both exactly when a
\* total volume was calculated whose computed value lies outside the
\* totalVolume table: the result is then flagged outOfRange and the error is
\* its message.
C17_ErrorOrResult == [][OutputAfterCalculate']_vars

\* a total beyond the table has been calculated: clamped, flagged and
\* reported as an error
C17_Witness ==
    /\ TotalOutsideTable
    /\ error # ""
    /\ calculatedTotalVolume[1].programmable =
           TableMax(INCREMENT_RULES[fillMode].totalVolume)

----------------------------------------------------------------------------
(* Claims about the cycle count of the standard form *)

\* C21: for every total, fill and last that validateInputs accepts, in
\* either fill mode, the cycle count solved is a non-negative whole: a
\* validated request never yields a negative number of cycles.
C21_CyclesNonNegative ==
    (pdMode = "cycles" /\ calculatedCycles # null) =>
        /\ validateInputs(Total, Fill, Last, fillMode) = null
        /\ calculatedCycles[1] \in Nat

----------------------------------------------------------------------------
(* The component under every sequence of operations *)

\* what is typed into a field: nothing, or one of a few volumes valid in
\* both fill modes (a total of 200 lies below a last fill of 500)
UiTotalTexts   == {Empty, Text(Num(200)), Text(Num(2000))}
UiCycleTexts   == {Empty, Text(Num(12))}
UiFillTexts    == {Empty, Text(Num(500))}
UiLastTexts    == {Empty, Text(Num(100)), Text(Num(500))}
UiPercentTexts == {Empty, Text(Num(85))}
UiDrainTexts   == {Empty, Text(Num(3))}
UiTimeTexts    == {Empty, Text(Num(8))}

InitUi == Constructed /\ call = NoCall /\ ret = null

NextUi ==
    \/ \E newMode \in FillModes : handleFillModeChange(newMode)
    \/ \E newType \in PDModes : handlePdModeChange(newType)
    \/ \E mode \in CalcModes : setCalculationMode(mode)
    \/ \E checked \in BOOLEAN : setShowTimeCalcs(checked)
    \/ \E value \in UiTotalTexts : handleTotalVolumeChange(value)
    \/ \E value \in UiCycleTexts : handleRequestedCyclesChange(value)
    \/ \E value \in UiFillTexts : setFillVolume(value)
    \/ \E value \in UiLastTexts : setLastFill(value)
    \/ \E value \in UiPercentTexts : setTidalPercentage(value)
    \/ \E value \in UiDrainTexts : setFullDrainEvery(value)
    \/ \E value \in UiTimeTexts : setTreatmentTime(value)
    \/ handleCalculateCycles
    \/ handleCalculateTidalCycles
    \/ handleKeyPress

SpecUi == InitUi /\ [][NextUi]_vars

\* the result slots that hold a result
SlotsHeld ==
    {i \in 1..3 : resultVars[i] # null}

\* C22: in every state reachable by any sequence of operations (fill-mode
\* change, PD-mode change, calculation-mode change, edits of the fields,
\* Calculate and Enter), at most one of calculatedCycles,
\* calculatedTotalVolume and tidalCycles is non-null.
C22_AtMostOneResult == Cardinality(SlotsHeld) <= 1

\* cycles were solved, the calculation mode changed, and a total volume has
\* been calculated in place of the cycles
C22_Witness ==
    /\ pdMode = "cycles" /\ calculationMode = "solveTotalVolume"
    /\ totalVolume # Empty
    /\ calculatedTotalVolume # null /\ calculatedCycles = null

----------------------------------------------------------------------------
(* The tidal search with a full drain on every cycle *)

Tenths(k) == k * (Scale \div 10)
\* budgets and fills: whole volumes, a half, and tenths (0.1, 1.7, 63.3,
\* 189.9) that no double holds exactly
EveryDrainBudgets == {Num(v) : v \in {0, 140, 1400, 79940}}
                     \cup {Tenths(17), Tenths(1899)}
EveryDrainFills   == {Num(v) : v \in {100, 1400, 3000}}
                     \cup {Num(60) + Scale \div 2, Tenths(1), Tenths(633)}

InitEveryDrain ==
    /\ Constructed
    /\ ret = null
    /\ \E workingVolume \in EveryDrainBudgets, fill \in EveryDrainFills,
          tidalDecimal \in SearchFractions :
          call = [fn |-> "calculateTidalCyclesCount",
                  workingVolume |-> workingVolume, fillVolume |-> fill,
                  tidalDecimal |-> tidalDecimal,
                  fullDrainInterval |-> 1]

NextEveryDrain == CalculateTidalCyclesCount

SpecEveryDrain == InitEveryDrain /\ [][NextEveryDrain]_vars

\* C23: with fullDrainInterval = 1, for every fill > 0, workingVolume >= 0
\* and any tidal fraction, calculateTidalCyclesCount(workingVolume, fill,
\* fraction, 1) is min(1000, floor(workingVolume / fill)), the count of the
\* standard solver capped at 1000.
C23_EveryDrainIsStandard ==
    (Searched /\ call.fullDrainInterval = 1
              /\ call.fillVolume > 0 /\ call.workingVolume >= 0) =>
        LET standard == calculateCyclesFromVolume(call.workingVolume, 0,
                                                  call.fillVolume)
        IN  ret[1] = IF standard > MAX_TIDAL_CYCLES THEN MAX_TIDAL_CYCLES
                     ELSE standard

----------------------------------------------------------------------------
(* Claims about the clamp inside a range *)

\* the range roundToValidIncrement decides by
CallRange ==
    CallRules[firstOf(matchingRules(CallRules, MathRound(call.value)))].range

\* C24: for the four tables and every whole value, roundToValidIncrement
\* never leaves by the clamp inside a range (rounded > max): a value inside
\* a range rounded up to the next multiple of the range's increment stays
\* within that range, every range max being a multiple of its increment.
C24_ClampNeverTaken ==
    (Rounded /\ call.value % Scale = 0) =>
        /\ roundToValidIncrementBranch(call.value, call.type, call.mode)
               # "clamped"
        /\ InSomeRange(CallRules, MathRound(call.value)) =>
               /\ ret[1].rounded >= CallRange[1]
               /\ ret[1].rounded <= CallRange[2]
               /\ ret[1].rounded >= MathRound(call.value)
        /\ \A rule \in RangesOf(CallRules) :
               rule.range[2] % rule.increment = 0

\* a whole value below the end of its range, rounded up onto that end
C24_Witness ==
    /\ Rounded /\ call.value % Scale = 0
    /\ roundToValidIncrementBranch(call.value, call.type, call.mode)
          = "roundedUp"
    /\ ret[1].rounded = CallRange[2]
    /\ ret[1].rounded > MathRound(call.value)

====
